---- MODULE Spec2Model ----
(***************************************************************************)
(* Model of the Flow framework core: the segment router                    *)
(* (internal/router) and the ledger-tracked migration runner               *)
(* (internal/migrations).                                                  *)
(*                                                                         *)
(* Strings that the code takes apart (paths, patterns) are sequences of    *)
(* one-character strings, so that Trim, TrimSuffix, Split and HasPrefix    *)
(* are computed the way the code computes them.                            *)
(***************************************************************************)
EXTENDS Integers, Sequences, FiniteSets, TLC

VARIABLES
    routes,     \* Router.routes: registered routes, in registration order
    NotFound,   \* Router.NotFound: "nil" or "custom"
    MethodNotAllowed, \* Router.MethodNotAllowed: "nil" or "custom"
    req,        \* the request handed to ServeHTTP (NoReq before dispatch)
    resp,       \* what ServeHTTP did with it (NoResp before dispatch)
    reg,        \* the last registration call and, if it panicked, its panic
    urlRes,     \* the last Router.URL call and what it returned
    appState,   \* App.state: 0 = idle, 1 = running, 2 = shutting down/stopped
    appServer,  \* App.server: 0 (nil) or the number of the last server created
    appMiddleware, \* App.middleware, in registration order
    appCalls,   \* per caller of the App: where its Start or Shutdown call is
    nservers,   \* number of servers created so far (history)
    appTrace,   \* what ran, in order, for the last request served by the App
    appLog,     \* the calls that returned and the changes of App.state (history)
    appListening, \* the servers whose goroutine is inside ListenAndServe
    child,      \* WatchAndRun's child variable: 0 (nil) or a child's number
    alive,      \* the children whose process is running
    waiters,    \* the children whose cmd.Wait goroutine has not finished
    started,    \* number of children started so far
    loop,       \* where WatchAndRun's main loop is
    killed,     \* the children Process.Kill was called on (history)
    dirExists,  \* whether the migrations directory exists
    dirFiles,   \* the names of the files in the migrations directory
    tableExists, \* whether the flow_migrations table exists
    ledger,     \* the rows of flow_migrations, in insertion (rowid) order
    schema,     \* the base names of the migrations whose table exists
    now,        \* CURRENT_TIMESTAMP, in seconds
    run,        \* per runner process: the call in progress (or the last one)
    prev,       \* the call completed before the current one (history)
    ncalls,     \* number of calls started (history)
    faults      \* number of storage errors so far (history)

routerVars == <<routes, NotFound, MethodNotAllowed, req, resp, reg, urlRes>>
migVars == <<dirExists, dirFiles, tableExists, ledger, schema, now, run, prev,
             ncalls, faults>>

appVars == <<appState, appServer, appMiddleware, appCalls, nservers, appTrace,
             appLog, appListening>>
watchVars == <<child, alive, waiters, started, loop, killed>>

vars == <<routerVars, migVars, appVars, watchVars>>

-----------------------------------------------------------------------------
(* Bounds of the router model *)

MaxRoutes == 2
MaxPathLen == 4

PathChars == {"/", "a", "b"}

\* Patterns handed to Handle: "/", "/a/:x", "/:x/:y", "/:x/:x"
Patterns ==
    { <<"/">>,
      <<"/", "a", "/", ":", "x">>,
      <<"/", ":", "x", "/", ":", "y">>,
      <<"/", ":", "x", "/", ":", "x">> }

\* Methods handed to Handle (any case) and methods of incoming requests
RegMethods == {"GET", "get", "POST"}
ReqMethods == {"GET", "POST"}

RECURSIVE SeqsUpTo(_, _)
SeqsUpTo(S, n) ==
    IF n = 0 THEN {<<>>}
    ELSE LET shorter == SeqsUpTo(S, n - 1)
         IN  shorter \cup {Append(s, c) : s \in {t \in shorter : Len(t) = n - 1}, c \in S}

\* Request paths: every string over PathChars that begins with "/"
ReqPaths == {<<"/">> \o s : s \in SeqsUpTo(PathChars, MaxPathLen - 1)}

\* Patterns handed to the registration functions when registration itself is
\* looked at: "/", "/a/:x", "/:" (a bare marker), "a/:x" and "" (no leading "/")
RegPatterns ==
    { <<"/">>,
      <<"/", "a", "/", ":", "x">>,
      <<"/", ":">>,
      <<"a", "/", ":", "x">>,
      <<>> }

\* Route names handed to HandleNamed and HandleNamedWith
Names == {"", "n1", "n2"}

\* Middleware lists handed to HandleWith and HandleNamedWith
MwLists == {<<>>, <<"mw1">>}

\* Patterns of three segments, "/a/:x/b" and "/:x/:y/:x", and the request
\* paths long enough to have an empty segment between two others
SegPatterns ==
    { <<"/", "a", "/", ":", "x", "/", "b">>,
      <<"/", ":", "x", "/", ":", "y", "/", ":", "x">> }

MaxSegPathLen == 5

SegPaths == {<<"/">> \o s : s \in SeqsUpTo(PathChars, MaxSegPathLen - 1)}

\* Patterns of the routes Router.URL is asked about: "/", "/a/:x", "/:x/:y", "/:"
UrlPatterns ==
    { <<"/">>,
      <<"/", "a", "/", ":", "x">>,
      <<"/", ":", "x", "/", ":", "y">>,
      <<"/", ":">> }

\* Keys and values of the params maps handed to Router.URL: the keys "x", "y"
\* and "", the values "a", "b" and "/"
UrlKeys == { <<"x">>, <<"y">>, <<>> }
UrlValues == { <<"a">>, <<"b">>, <<"/">> }
ParamMaps == UNION {[K -> UrlValues] : K \in SUBSET UrlKeys}

\* Bases handed to Resources: "", "b", "/b/" and "/"
Bases == { <<>>, <<"b">>, <<"/", "b", "/">>, <<"/">> }

\* Request paths on a resource: "/" followed by up to MaxResSegs segments
\* joined by "/", each one of "b", "new", "edit", "a" and ""
MaxResSegs == 3

ResSegs == { <<"b">>, <<"n", "e", "w">>, <<"e", "d", "i", "t">>, <<"a">>, <<>> }

RECURSIVE PathsOfSegs(_)
PathsOfSegs(n) ==
    IF n = 0 THEN {<<>>}
    ELSE LET shorter == PathsOfSegs(n - 1)
         IN  shorter \cup {<<"/">> \o sg \o t : sg \in ResSegs, t \in shorter}

ResPaths == PathsOfSegs(MaxResSegs) \ {<<>>}

\* the params maps handed to URL for a resource route: none, and id = "a"
ResParamMaps == { <<>>, (<<"i", "d">> :> <<"a">>) }

NoReq == [method |-> "", path |-> <<>>]
NoReg == [fn |-> "", name |-> "", pattern |-> <<>>, panic |-> "", before |-> <<>>,
          err |-> ""]
NoURL == [done |-> FALSE, name |-> "", params |-> <<>>, path |-> <<>>, err |-> "",
          table |-> <<>>]
NoResp == [kind |-> "none", called |-> <<>>, params |-> <<>>, status |-> 0,
           trace |-> <<>>]

-----------------------------------------------------------------------------
(* String helpers of the Go standard library, as the router uses them *)

\* strings.ToUpper on the method names in use
ToUpper(m) == IF m = "get" THEN "GET" ELSE IF m = "post" THEN "POST" ELSE m

\* strings.HasPrefix(s, c) for a one-character prefix
HasPrefix(s, c) == Len(s) > 0 /\ s[1] = c

\* strings.TrimPrefix(s, c) for a one-character prefix
TrimPrefix(s, c) == IF HasPrefix(s, c) THEN SubSeq(s, 2, Len(s)) ELSE s

\* strings.HasSuffix(s, suf)
HasSuffix(s, suf) ==
    Len(s) >= Len(suf) /\ SubSeq(s, Len(s) - Len(suf) + 1, Len(s)) = suf

\* strings.TrimSuffix(s, suf): removes ONE trailing suf
TrimSuffix(s, suf) ==
    IF HasSuffix(s, suf) THEN SubSeq(s, 1, Len(s) - Len(suf)) ELSE s

RECURSIVE TrimLeft(_, _)
TrimLeft(s, c) == IF HasPrefix(s, c) THEN TrimLeft(SubSeq(s, 2, Len(s)), c) ELSE s

RECURSIVE TrimRight(_, _)
TrimRight(s, c) ==
    IF Len(s) > 0 /\ s[Len(s)] = c THEN TrimRight(SubSeq(s, 1, Len(s) - 1), c) ELSE s

\* (mutant) a trim that keeps the trailing characters
TrimLeadingOnly(s, c) == TrimLeft(s, c)

\* strings.Trim(s, c): removes ALL leading and trailing c
Trim(s, c) == TrimRight(TrimLeft(s, c), c)

\* strings.Split(s, c): the pieces between separators, empty pieces included
RECURSIVE SplitFrom(_, _, _, _)
SplitFrom(s, c, i, cur) ==
    IF i > Len(s) THEN <<cur>>
    ELSE IF s[i] = c THEN <<cur>> \o SplitFrom(s, c, i + 1, <<>>)
    ELSE SplitFrom(s, c, i + 1, Append(cur, s[i]))

Split(s, c) == SplitFrom(s, c, 1, <<>>)

-----------------------------------------------------------------------------
(* Router *)

\* splitPath: "/users/:id/edit" -> ["users", ":id", "edit"]; "/" -> []
splitPath(p) ==
    LET t == Trim(p, "/")
    IN  IF t = <<>> THEN <<>> ELSE Split(t, "/")

\* normalizePath: removes a trailing slash unless the path is just "/"
normalizePath(p) ==
    IF p = <<"/">> THEN p
    ELSE LET q == TrimSuffix(p, <<"/">>)
         IN  IF q = <<>> THEN <<"/">> ELSE q

EmptyParams == <<>>

\* (mutant) a segment loop that does not compare literal segments
RECURSIVE matchSegsNoLiteral(_, _, _, _)
matchSegsNoLiteral(segs, parts, i, params) ==
    IF i > Len(segs) THEN [ok |-> TRUE, params |-> params]
    ELSE LET s == segs[i]
             p == parts[i]
         IN  IF s = <<>>
             THEN IF p # <<>> THEN [ok |-> FALSE, params |-> EmptyParams]
                  ELSE matchSegsNoLiteral(segs, parts, i + 1, params)
             ELSE IF HasPrefix(s, ":")
             THEN LET name == TrimPrefix(s, ":")
                  IN  IF name = <<>> THEN [ok |-> FALSE, params |-> EmptyParams]
                      ELSE matchSegsNoLiteral(segs, parts, i + 1, (name :> p) @@ params)
             ELSE matchSegsNoLiteral(segs, parts, i + 1, params)

\* the segment loop of matchRoute, from index i on with the params bound so far
RECURSIVE matchSegs(_, _, _, _)
matchSegs(segs, parts, i, params) ==
    IF i > Len(segs) THEN [ok |-> TRUE, params |-> params]
    ELSE LET s == segs[i]
             p == parts[i]
         IN  IF s = <<>>
             THEN IF p # <<>> THEN [ok |-> FALSE, params |-> EmptyParams]
                  ELSE matchSegs(segs, parts, i + 1, params)
             ELSE IF HasPrefix(s, ":")
             THEN LET name == TrimPrefix(s, ":")
                  IN  IF name = <<>> THEN [ok |-> FALSE, params |-> EmptyParams]
                      ELSE matchSegs(segs, parts, i + 1, (name :> p) @@ params)
             ELSE IF s # p THEN [ok |-> FALSE, params |-> EmptyParams]
             ELSE matchSegs(segs, parts, i + 1, params)

\* matchRoute(segs, path): path is the normalized request path
matchRoute(segs, path) ==
    IF Len(segs) = 0 THEN [ok |-> path = <<"/">>, params |-> EmptyParams]
    ELSE LET trimmed == Trim(path, "/")
         IN  IF trimmed = <<>> THEN [ok |-> FALSE, params |-> EmptyParams]
             ELSE LET parts == Split(trimmed, "/")
                  IN  IF Len(parts) # Len(segs)
                      THEN [ok |-> FALSE, params |-> EmptyParams]
                      ELSE matchSegs(segs, parts, 1, EmptyParams)

\* the middleware in use: "s" answers without calling its next stage, every
\* other one calls it
Mws == {"m1", "m2", "s"}

CallsNext(m) == m # "s"

\* longest middleware list
MaxMws == 2

MwChains == UNION {[1..n -> Mws] : n \in 0..MaxMws}

\* (mutant) a loop that wraps with the first middleware first
RECURSIVE ComposeLoopAscending(_, _, _)
ComposeLoopAscending(mws, i, final) ==
    IF i < 1 THEN final
    ELSE ComposeLoopAscending(mws, i - 1, <<mws[Len(mws) - i + 1]>> \o final)

\* the loop "for i := len(mws)-1; i >= 0; i-- { final = mws[i](final) }": a
\* handler is the sequence of its stages from the outermost to the terminal
\* one, and wrapping a handler puts the wrapper in front (i counts from 1)
RECURSIVE ComposeLoop(_, _, _)
ComposeLoop(mws, i, final) ==
    IF i < 1 THEN final
    ELSE ComposeLoop(mws, i - 1, <<mws[i]>> \o final)

Compose(mws, terminal) == ComposeLoop(mws, Len(mws), <<terminal>>)

\* ServeHTTP of a composed handler: what is entered, run and left, in order
RECURSIVE Run(_)
Run(h) ==
    IF Len(h) = 1 THEN << <<"run", h[1]>> >>
    ELSE <<<<"enter", h[1]>>>>
         \o (IF CallsNext(h[1]) THEN Run(Tail(h)) ELSE <<>>)
         \o <<<<"exit", h[1]>>>>

\* (mutant) a fallback that forgets the method-mismatch flag
FallbackNoFlag(mna, nf, methodMismatch) ==
    [kind |-> "NotFound", called |-> <<>>, params |-> EmptyParams,
     status |-> IF nf # "nil" THEN 0 ELSE 404, trace |-> <<>>]

\* what ServeHTTP does once the scan is over without a dispatch
Fallback(mna, nf, methodMismatch) ==
    IF methodMismatch
    THEN [kind |-> "MethodNotAllowed", called |-> <<>>, params |-> EmptyParams,
          status |-> IF mna # "nil" THEN 0 ELSE 405, trace |-> <<>>]
    ELSE [kind |-> "NotFound", called |-> <<>>, params |-> EmptyParams,
          status |-> IF nf # "nil" THEN 0 ELSE 404, trace |-> <<>>]

\* (mutant) a scan that answers as soon as a route of the right shape has the
\* wrong verb
RECURSIVE ScanShortCircuit(_, _, _, _, _, _, _)
ScanShortCircuit(rts, mna, nf, method, path, i, methodMismatch) ==
    IF i > Len(rts) THEN Fallback(mna, nf, methodMismatch)
    ELSE LET rt == rts[i]
             m == matchRoute(rt.segments, path)
         IN  IF ~m.ok
             THEN ScanShortCircuit(rts, mna, nf, method, path, i + 1, methodMismatch)
             ELSE IF rt.method # method THEN Fallback(mna, nf, TRUE)
             ELSE [kind |-> "route", called |-> Compose(rt.middleware, rt.handler),
                   params |-> m.params, status |-> 0,
                   trace |-> Run(Compose(rt.middleware, rt.handler))]

\* the route loop of ServeHTTP from index i on
RECURSIVE Scan(_, _, _, _, _, _, _)
Scan(rts, mna, nf, method, path, i, methodMismatch) ==
    IF i > Len(rts) THEN Fallback(mna, nf, methodMismatch)
    ELSE LET rt == rts[i]
             m == matchRoute(rt.segments, path)
         IN  IF ~m.ok THEN Scan(rts, mna, nf, method, path, i + 1, methodMismatch)
             ELSE IF rt.method # method THEN Scan(rts, mna, nf, method, path, i + 1, TRUE)
             ELSE [kind |-> "route", called |-> Compose(rt.middleware, rt.handler),
                   params |-> m.params, status |-> 0,
                   trace |-> Run(Compose(rt.middleware, rt.handler))]

\* the response of Router.ServeHTTP to (method, path)
Dispatch(rts, mna, nf, method, path) ==
    Scan(rts, mna, nf, method, normalizePath(path), 1, FALSE)

\* url.PathEscape on the characters in use: "/" becomes "%2F"
RECURSIVE PathEscape(_)
PathEscape(v) ==
    IF v = <<>> THEN <<>>
    ELSE (IF v[1] = "/" THEN <<"%", "2", "F">> ELSE <<v[1]>>) \o PathEscape(Tail(v))

\* strings.Join(parts, sep) for a one-character separator
RECURSIVE Join(_, _)
Join(parts, sep) ==
    IF parts = <<>> THEN <<>>
    ELSE IF Len(parts) = 1 THEN parts[1]
    ELSE parts[1] \o <<sep>> \o Join(Tail(parts), sep)

\* (mutant) a substitution loop that skips the escaping
URLPartsUnescaped(segs, k, params, parts) ==
    [path |-> <<"/">> \o Join([i \in 1..Len(segs) |->
                                 IF HasPrefix(segs[i], ":") /\ TrimPrefix(segs[i], ":") \in DOMAIN params
                                 THEN params[TrimPrefix(segs[i], ":")] ELSE segs[i]], "/"),
     err |-> ""]

\* the loop of Router.URL over the segments of the route found, from index k
\* on with the parts built so far
RECURSIVE URLParts(_, _, _, _)
URLParts(segs, k, params, parts) ==
    IF k > Len(segs) THEN [path |-> <<"/">> \o Join(parts, "/"), err |-> ""]
    ELSE LET sg == segs[k]
         IN  IF HasPrefix(sg, ":")
             THEN LET key == TrimPrefix(sg, ":")
                  IN  IF key \notin DOMAIN params
                      THEN [path |-> <<>>, err |-> "router: missing param"]
                      ELSE URLParts(segs, k + 1, params, Append(parts, PathEscape(params[key])))
             ELSE URLParts(segs, k + 1, params, Append(parts, sg))

\* the loop of Router.URL over the routes, from index i on
RECURSIVE URLFrom(_, _, _, _)
URLFrom(rts, i, name, params) ==
    IF i > Len(rts) THEN [path |-> <<>>, err |-> "router: unknown route"]
    ELSE IF rts[i].name = name
    THEN IF Len(rts[i].segments) = 0 THEN [path |-> <<"/">>, err |-> ""]
         ELSE URLParts(rts[i].segments, 1, params, <<>>)
    ELSE URLFrom(rts, i + 1, name, params)

RouterInit ==
    /\ routes = <<>>
    /\ NotFound \in {"nil", "custom"}
    /\ MethodNotAllowed \in {"nil", "custom"}
    /\ req = NoReq
    /\ resp = NoResp
    /\ reg = NoReg
    /\ urlRes = NoURL

\* (mutant) a prefix check that lets every pattern through
BeginsWithSlashAlways(pattern) == TRUE

\* strings.HasPrefix(pattern, "/")
BeginsWithSlash(pattern) == HasPrefix(pattern, "/")

\* (mutant) a uniqueness loop that finds no route
NameInUseNever(rts, name) == FALSE

\* the uniqueness loop of HandleNamed: existing.name == name for some route
NameInUse(rts, name) == \E i \in 1..Len(rts) : rts[i].name = name

\* the panic a registration ends with, "" if it registers; named tells
\* whether the function takes a route name
PanicOf(rts, named, name, pattern) ==
    IF named /\ name = "" THEN "router: route name cannot be empty"
    ELSE IF named /\ NameInUse(rts, name) THEN "router: duplicate route name"
    ELSE IF ~BeginsWithSlash(pattern) THEN "router: pattern must begin with '/'"
    ELSE ""

\* the body shared by the four registration functions; h is a fresh handler,
\* identified by its registration number. A panic ends the program.
Register(fn, named, name, method, pattern, mws) ==
    /\ req = NoReq
    /\ ~urlRes.done
    /\ reg.panic = ""
    /\ Len(routes) < MaxRoutes
    /\ LET msg == PanicOf(routes, named, name, pattern)
           call == [fn |-> fn, name |-> name, pattern |-> pattern,
                    panic |-> msg, before |-> <<>>, err |-> ""]
       IN  IF msg # ""
           THEN /\ reg' = [call EXCEPT !.before = routes]
                /\ UNCHANGED routes
           ELSE /\ reg' = call
                /\ routes' = Append(routes,
                                    [method |-> ToUpper(method), pattern |-> pattern,
                                     segments |-> splitPath(pattern),
                                     handler |-> Len(routes) + 1, name |-> name,
                                     middleware |-> mws])
    /\ UNCHANGED <<NotFound, MethodNotAllowed, req, resp, urlRes>>
    /\ UNCHANGED <<migVars, appVars, watchVars>>

\* Router.Handle(method, pattern, h)
Handle(method, pattern) == Register("Handle", FALSE, "", method, pattern, <<>>)

\* Router.HandleWith(method, pattern, h, mws...)
HandleWith(method, pattern, mws) == Register("HandleWith", FALSE, "", method, pattern, mws)

\* Router.HandleNamed(name, method, pattern, h)
HandleNamed(name, method, pattern) ==
    Register("HandleNamed", TRUE, name, method, pattern, <<>>)

\* Router.HandleNamedWith(name, method, pattern, h, mws...)
HandleNamedWith(name, method, pattern, mws) ==
    Register("HandleNamedWith", TRUE, name, method, pattern, mws)

\* the verb shortcuts
Get(p) == Handle("GET", p)
Post(p) == Handle("POST", p)
Put(p) == Handle("PUT", p)
Patch(p) == Handle("PATCH", p)
Delete(p) == Handle("DELETE", p)

\* (mutant) a Resources that registers Show before New
ResourceRoutesShowFirst(rts, b) ==
    LET add(t, method, pattern, h) ==
            Append(t, [method |-> ToUpper(method), pattern |-> pattern,
                       segments |-> splitPath(pattern), handler |-> h,
                       name |-> "", middleware |-> <<>>])
        member == <<"/">> \o b \o <<"/", ":", "i", "d">>
        r1 == add(rts, "GET", <<"/">> \o b, "Index")
        r2 == add(r1, "GET", member, "Show")
        r3 == add(r2, "POST", <<"/">> \o b, "Create")
        r4 == add(r3, "GET", <<"/">> \o b \o <<"/", "n", "e", "w">>, "New")
        r5 == add(r4, "GET", member \o <<"/", "e", "d", "i", "t">>, "Edit")
        r6 == add(r5, "PUT", member, "Update")
        r7 == add(r6, "PATCH", member, "Update")
    IN  add(r7, "DELETE", member, "Destroy")

\* the table after the eight registrations of Resources, b the trimmed base;
\* add is r.Handle on a pattern that begins with "/", the handlers are the
\* methods of the controller
ResourceRoutes(rts, b) ==
    LET add(t, method, pattern, h) ==
            Append(t, [method |-> ToUpper(method), pattern |-> pattern,
                       segments |-> splitPath(pattern), handler |-> h,
                       name |-> "", middleware |-> <<>>])
        member == <<"/">> \o b \o <<"/", ":", "i", "d">>
        r1 == add(rts, "GET", <<"/">> \o b, "Index")
        r2 == add(r1, "GET", <<"/">> \o b \o <<"/", "n", "e", "w">>, "New")
        r3 == add(r2, "POST", <<"/">> \o b, "Create")
        r4 == add(r3, "GET", member, "Show")
        r5 == add(r4, "GET", member \o <<"/", "e", "d", "i", "t">>, "Edit")
        r6 == add(r5, "PUT", member, "Update")
        r7 == add(r6, "PATCH", member, "Update")
    IN  add(r7, "DELETE", member, "Destroy")

\* Router.Resources(base, c)
Resources(base) ==
    /\ req = NoReq
    /\ ~urlRes.done
    /\ reg.panic = ""
    /\ reg.fn # "Resources"
    /\ Len(routes) < MaxRoutes
    /\ IF base = <<>>
       THEN /\ reg' = [NoReg EXCEPT !.fn = "Resources", !.pattern = base,
                                    !.before = routes,
                                    !.err = "router: Resources base cannot be empty"]
            /\ UNCHANGED routes
       ELSE /\ reg' = [NoReg EXCEPT !.fn = "Resources", !.pattern = base,
                                    !.before = routes]
            /\ routes' = ResourceRoutes(routes, Trim(base, "/"))
    /\ UNCHANGED <<NotFound, MethodNotAllowed, req, resp, urlRes>>
    /\ UNCHANGED <<migVars, appVars, watchVars>>

\* Router.URL(name, params)
URL(name, params) ==
    /\ req = NoReq
    /\ reg.panic = ""
    /\ ~urlRes.done
    /\ LET r == URLFrom(routes, 1, name, params)
       IN  urlRes' = [done |-> TRUE, name |-> name, params |-> params,
                      path |-> r.path, err |-> r.err, table |-> routes]
    /\ UNCHANGED <<routes, NotFound, MethodNotAllowed, req, resp, reg>>
    /\ UNCHANGED <<migVars, appVars, watchVars>>

\* Router.ServeHTTP(w, req)
ServeHTTP(method, path) ==
    /\ req = NoReq
    /\ reg.panic = ""
    /\ req' = [method |-> method, path |-> path]
    /\ resp' = Dispatch(routes, MethodNotAllowed, NotFound, method, path)
    /\ UNCHANGED <<routes, NotFound, MethodNotAllowed, reg, urlRes>>
    /\ UNCHANGED <<migVars, appVars, watchVars>>

RouterNext ==
    \/ \E m \in RegMethods, p \in Patterns : Handle(m, p)
    \/ \E m \in ReqMethods, p \in ReqPaths : ServeHTTP(m, p)

\* wiring: the registration functions, with well-formed and malformed arguments
RegNext ==
    \/ \E m \in {"GET", "get"}, p \in RegPatterns : Handle(m, p)
    \/ \E p \in RegPatterns, mws \in MwLists : HandleWith("GET", p, mws)
    \/ \E n \in Names, p \in RegPatterns : HandleNamed(n, "GET", p)
    \/ \E n \in Names, p \in RegPatterns, mws \in MwLists : HandleNamedWith(n, "GET", p, mws)
    \/ \E p \in RegPatterns : Get(p)
    \/ \E p \in RegPatterns : Post(p)
    \/ \E p \in RegPatterns : Put(p)
    \/ \E p \in RegPatterns : Patch(p)
    \/ \E p \in RegPatterns : Delete(p)

\* named and unnamed routes, and reverse lookups on them
URLNext ==
    \/ \E p \in UrlPatterns : Handle("GET", p)
    \/ \E n \in Names \ {""}, p \in UrlPatterns : HandleNamed(n, "GET", p)
    \/ \E n \in Names, ps \in ParamMaps : URL(n, ps)

\* App.Use(m)
Use(m) ==
    /\ req = NoReq
    /\ Len(appMiddleware) < MaxMws
    /\ appMiddleware' = Append(appMiddleware, m)
    /\ UNCHANGED <<appState, appServer, appCalls, nservers, appTrace, appLog,
                   appListening>>
    /\ UNCHANGED <<routerVars, migVars, watchVars>>

\* App.Handler(): the middleware stack around the router
Handler == ComposeLoop(appMiddleware, Len(appMiddleware), <<"router">>)

\* App.ServeHTTP(w, r): the router serves the request if the stack reaches it
AppServeHTTP(method, path) ==
    /\ req = NoReq
    /\ reg.panic = ""
    /\ req' = [method |-> method, path |-> path]
    /\ appTrace' = Run(Handler)
    /\ resp' = IF \A k \in 1..Len(appMiddleware) : CallsNext(appMiddleware[k])
               THEN Dispatch(routes, MethodNotAllowed, NotFound, method, path)
               ELSE resp
    /\ UNCHANGED <<routes, NotFound, MethodNotAllowed, reg, urlRes>>
    /\ UNCHANGED <<appState, appServer, appMiddleware, appCalls, nservers, appLog,
                   appListening>>
    /\ UNCHANGED <<migVars, watchVars>>

\* most calls of Start and Shutdown on one App
MaxAppCalls == 3

\* the goroutines that call Start and Shutdown
Callers == {1, 2}

\* (mutant) a compare-and-swap that swaps whatever the value is
CompareAndSwapAlways(v, old, new) == [ok |-> TRUE, val |-> new]

\* atomic.CompareAndSwapInt32(&v, old, new)
CompareAndSwapInt32(v, old, new) ==
    IF v = old THEN [ok |-> TRUE, val |-> new] ELSE [ok |-> FALSE, val |-> v]

\* an entry of the history: a call of p that returned err having seen the
\* state seen, or (op = "state") a change of App.state from seen to now
AppEv(op, p, seen, to, err) == [op |-> op, p |-> p, seen |-> seen, to |-> to, err |-> err]

\* the history after a write of to to App.state
StateTo(log, to) ==
    IF to = appState THEN log ELSE Append(log, AppEv("state", 0, appState, to, ""))

\* calls started so far
AppCallsStarted ==
    Cardinality({k \in 1..Len(appLog) : appLog[k].op # "state"})
    + Cardinality({p \in Callers : appCalls[p] # "idle"})

\* App.Start, its first statement: the compare-and-swap of state from 0 to 1
Start(p) ==
    /\ appCalls[p] = "idle"
    /\ AppCallsStarted < MaxAppCalls
    /\ LET cas == CompareAndSwapInt32(appState, 0, 1)
       IN  /\ appState' = cas.val
           /\ IF cas.ok
              THEN /\ appCalls' = [appCalls EXCEPT ![p] = "server"]
                   /\ appLog' = StateTo(appLog, cas.val)
              ELSE /\ appLog' = Append(appLog, AppEv("Start", p, appState, appState,
                                                     "ErrAppAlreadyRunning"))
                   /\ UNCHANGED appCalls
    /\ UNCHANGED <<appServer, appMiddleware, nservers, appTrace, appListening>>
    /\ UNCHANGED <<routerVars, migVars, watchVars>>

\* App.Start: srv := &http.Server{...}; a.server = srv
StartServer(p) ==
    /\ appCalls[p] = "server"
    /\ nservers' = nservers + 1
    /\ appServer' = nservers + 1
    /\ appCalls' = [appCalls EXCEPT ![p] = "go"]
    /\ UNCHANGED <<appState, appMiddleware, appTrace, appLog, appListening>>
    /\ UNCHANGED <<routerVars, migVars, watchVars>>

\* App.Start: go func() { srv.ListenAndServe() ... }(); return nil
StartGo(p) ==
    /\ appCalls[p] = "go"
    /\ appListening' = appListening \cup {appServer}
    /\ appLog' = Append(appLog, AppEv("Start", p, 0, 1, ""))
    /\ appCalls' = [appCalls EXCEPT ![p] = "idle"]
    /\ UNCHANGED <<appState, appServer, appMiddleware, nservers, appTrace>>
    /\ UNCHANGED <<routerVars, migVars, watchVars>>

\* the goroutine of Start: ListenAndServe returns (the listener failed or the
\* server was shut down), then atomic.StoreInt32(&a.state, 2)
ListenReturns(srv) ==
    /\ srv \in appListening
    /\ appListening' = appListening \ {srv}
    /\ appState' = 2
    /\ appLog' = StateTo(appLog, 2)
    /\ UNCHANGED <<appServer, appMiddleware, appCalls, nservers, appTrace>>
    /\ UNCHANGED <<routerVars, migVars, watchVars>>

\* App.Shutdown, its first statement: if a.server == nil { return nil }
Shutdown(p) ==
    /\ appCalls[p] = "idle"
    /\ AppCallsStarted < MaxAppCalls
    /\ IF appServer = 0
       THEN /\ appLog' = Append(appLog, AppEv("Shutdown", p, appState, appState, ""))
            /\ UNCHANGED appCalls
       ELSE /\ appCalls' = [appCalls EXCEPT ![p] = "cas"]
            /\ UNCHANGED appLog
    /\ UNCHANGED <<appState, appServer, appMiddleware, nservers, appTrace, appListening>>
    /\ UNCHANGED <<routerVars, migVars, watchVars>>

\* App.Shutdown: the compare-and-swap of state from 1 to 2; when it fails and
\* the state is 2 the call returns nil
ShutdownCAS(p) ==
    /\ appCalls[p] = "cas"
    /\ LET cas == CompareAndSwapInt32(appState, 1, 2)
       IN  /\ appState' = cas.val
           /\ IF ~cas.ok /\ appState = 2
              THEN /\ appLog' = Append(appLog, AppEv("Shutdown", p, appState, appState, ""))
                   /\ appCalls' = [appCalls EXCEPT ![p] = "idle"]
              ELSE /\ appLog' = StateTo(appLog, cas.val)
                   /\ appCalls' = [appCalls EXCEPT ![p] = "shutdown"]
    /\ UNCHANGED <<appServer, appMiddleware, nservers, appTrace, appListening>>
    /\ UNCHANGED <<routerVars, migVars, watchVars>>

\* App.Shutdown: a.server.Shutdown(ctx) and the return
ShutdownServer(p) ==
    /\ appCalls[p] = "shutdown"
    /\ appLog' = Append(appLog, AppEv("Shutdown", p, appState, appState, ""))
    /\ appCalls' = [appCalls EXCEPT ![p] = "idle"]
    /\ UNCHANGED <<appState, appServer, appMiddleware, nservers, appTrace, appListening>>
    /\ UNCHANGED <<routerVars, migVars, watchVars>>

\* callers of Start and Shutdown on one App, interleaved with each other and
\* with the goroutine of Start
AppNext ==
    \/ \E p \in Callers : Start(p)
    \/ \E p \in Callers : StartServer(p)
    \/ \E p \in Callers : StartGo(p)
    \/ \E srv \in 1..MaxAppCalls : ListenReturns(srv)
    \/ \E p \in Callers : Shutdown(p)
    \/ \E p \in Callers : ShutdownCAS(p)
    \/ \E p \in Callers : ShutdownServer(p)

\* most children WatchAndRun starts
MaxChildren == 3

\* startChild(), under mu: nothing if child is set, else cmd.Start(); when it
\* succeeds child = cmd and a goroutine waits for the new child
startChild(ok) ==
    IF child # 0 THEN UNCHANGED <<child, alive, waiters, started>>
    ELSE IF ~ok THEN UNCHANGED <<child, alive, waiters, started>>
    ELSE /\ started' = started + 1
         /\ child' = started + 1
         /\ alive' = alive \cup {started + 1}
         /\ waiters' = waiters \cup {started + 1}

\* stopChild(), under mu: nothing if child is nil, else child.Process.Kill()
\* and child = nil
stopChild ==
    IF child = 0 THEN UNCHANGED <<child, alive, killed>>
    ELSE /\ alive' = alive \ {child}
         /\ killed' = killed \cup {child}
         /\ child' = 0

\* WatchAndRun: the initial startChild; a failure returns from WatchAndRun
StartInitial(ok) ==
    /\ loop = "off"
    /\ startChild(ok)
    /\ loop' = IF ok THEN "select" ELSE "returned"
    /\ UNCHANGED killed
    /\ UNCHANGED <<routerVars, migVars, appVars>>

\* the debounce timer fires after a change: stopChild()
RestartStop ==
    /\ loop = "select"
    /\ started < MaxChildren
    /\ stopChild
    /\ loop' = "restart"
    /\ UNCHANGED <<waiters, started>>
    /\ UNCHANGED <<routerVars, migVars, appVars>>

\* the restart goes on: startChild(); a failure is printed
RestartStart(ok) ==
    /\ loop = "restart"
    /\ startChild(ok)
    /\ loop' = "select"
    /\ UNCHANGED killed
    /\ UNCHANGED <<routerVars, migVars, appVars>>

\* ctx is done: stopChild() and return
Cancel ==
    /\ loop = "select"
    /\ stopChild
    /\ loop' = "returned"
    /\ UNCHANGED <<waiters, started>>
    /\ UNCHANGED <<routerVars, migVars, appVars>>

\* a child's process ends by itself
ChildExits(c) ==
    /\ c \in alive
    /\ alive' = alive \ {c}
    /\ UNCHANGED <<child, waiters, started, loop, killed>>
    /\ UNCHANGED <<routerVars, migVars, appVars>>

\* the goroutine of child c: cmd.Wait() has returned; under mu, child = nil
WaitReturns(c) ==
    /\ c \in waiters
    /\ c \notin alive
    /\ waiters' = waiters \ {c}
    /\ child' = 0
    /\ UNCHANGED <<alive, started, loop, killed>>
    /\ UNCHANGED <<routerVars, migVars, appVars>>

\* WatchAndRun's loop interleaved with the children and their wait goroutines
WatchNext ==
    \/ \E ok \in BOOLEAN : StartInitial(ok)
    \/ RestartStop
    \/ \E ok \in BOOLEAN : RestartStart(ok)
    \/ Cancel
    \/ \E c \in 1..MaxChildren : ChildExits(c)
    \/ \E c \in 1..MaxChildren : WaitReturns(c)

\* one route behind its middleware, the App's stack, and a request to either
MwNext ==
    \/ \E p \in {<<"/">>, <<"/", "a">>}, mws \in MwChains :
          routes = <<>> /\ HandleWith("GET", p, mws)
    \/ \E m \in Mws : Use(m)
    \/ \E p \in {<<"/">>, <<"/", "a">>} : ServeHTTP("GET", p)
    \/ \E p \in {<<"/">>, <<"/", "a">>} : AppServeHTTP("GET", p)

\* a resource wired after up to MaxRoutes other routes, then a request or a
\* reverse lookup of its show route
ResNext ==
    \/ \E p \in {<<"/">>, <<"/", "a", "/", ":", "x">>} : reg.fn # "Resources" /\ Get(p)
    \/ \E base \in Bases : Resources(base)
    \/ \E m \in {"GET", "PUT"}, p \in ResPaths : reg.fn = "Resources" /\ ServeHTTP(m, p)
    \/ \E ps \in ResParamMaps : reg.fn = "Resources" /\ URL("b_show", ps)

\* routes of three segments and the requests that reach them
SegNext ==
    \/ \E p \in SegPatterns : Get(p)
    \/ \E p \in SegPaths : ServeHTTP("GET", p)

(* Migration runner *)

(* File names are sequences of byte values, so that sort.Strings orders    *)
(* them as Go does: "-" = 45, "." = 46, "1" = 49, "2" = 50, and the        *)
(* letters of the suffixes ".up.sql" and ".down.sql".                      *)
(*                                                                         *)
(* The SQL of a migration is the pair of the runner's test: the up file    *)
(* is CREATE TABLE t, which fails when t exists, and the down file is      *)
(* DROP TABLE IF EXISTS t; the up file of migration "2" is written as the  *)
(* generator writes it, CREATE TABLE IF NOT EXISTS t, which succeeds when  *)
(* t exists. Every database statement may also fail with a                 *)
(* storage error (at most MaxFaults of them in a behaviour). Each          *)
(* statement is one step; CURRENT_TIMESTAMP counts seconds and never goes  *)
(* back, so the rows of one second share their applied_at.                 *)

MaxCalls == 3
MaxOpCalls == 2
MaxFaults == 1
MaxClock == 1

Procs == {1, 2}

\* base names of the migrations that may be in the directory: "1", "1-", "2"
MigNames == { <<49>>, <<49, 45>>, <<50>> }

UpSuffix == <<46, 117, 112, 46, 115, 113, 108>>
DownSuffix == <<46, 100, 111, 119, 110, 46, 115, 113, 108>>

\* Go's string comparison a < b: byte-wise lexicographic
RECURSIVE LexLess(_, _)
LexLess(a, b) ==
    IF a = <<>> THEN b # <<>>
    ELSE IF b = <<>> THEN FALSE
    ELSE IF a[1] # b[1] THEN a[1] < b[1]
    ELSE LexLess(Tail(a), Tail(b))

\* (mutant) a sort in descending order
RECURSIVE SortStringsDescending(_)
SortStringsDescending(S) ==
    IF S = {} THEN <<>>
    ELSE LET mx == CHOOSE x \in S : \A y \in S \ {x} : LexLess(y, x)
         IN  <<mx>> \o SortStringsDescending(S \ {mx})

\* sort.Strings on a slice of distinct strings
RECURSIVE SortStrings(_)
SortStrings(S) ==
    IF S = {} THEN <<>>
    ELSE LET mn == CHOOSE x \in S : \A y \in S \ {x} : LexLess(x, y)
         IN  <<mn>> \o SortStrings(S \ {mn})

\* (mutant) a collect that does not look at the suffix
collectAnySuffix(files, suffix) == files

\* MigrationRunner.collect(dir, suffix): the files of dir that end with suffix
collect(files, suffix) == {f \in files : HasSuffix(f, suffix)}

\* (mutant) an isApplied that never finds the row
isAppliedNever(rows, base) == FALSE

\* MigrationRunner.isApplied: SELECT count(1) ... WHERE name = ? > 0
isApplied(rows, base) == \E k \in 1..Len(rows) : rows[k].name = base

\* the rows ORDER BY applied_at DESC LIMIT 1 may return: rows that share the
\* greatest applied_at are in no defined order
LastApplied(rows) ==
    {rows[k].name : k \in {j \in 1..Len(rows) :
                             \A l \in 1..Len(rows) : rows[l].applied_at <= rows[j].applied_at}}

\* an empty name stands for sql.ErrNoRows
NoRows == <<>>

\* (mutant) a Scan whose sql.ErrNoRows is not looked at
ScanLastAnyName(rows) == IF rows = <<>> THEN MigNames ELSE LastApplied(rows)

\* RollbackLast: QueryRow(...).Scan(&name), sql.ErrNoRows on an empty table
ScanLast(rows) == IF rows = <<>> THEN {NoRows} ELSE LastApplied(rows)

\* (mutant) an INSERT that stores nothing
InsertRowNothing(rows, base, t) == rows

\* INSERT INTO flow_migrations(name) VALUES (?), applied_at by default
InsertRow(rows, base, t) == Append(rows, [name |-> base, applied_at |-> t])

\* (mutant) a DELETE that removes nothing
DeleteRowNothing(rows, base) == rows

\* DELETE FROM flow_migrations WHERE name = ?
DeleteRow(rows, base) == SelectSeq(rows, LAMBDA r : r.name # base)

\* the names whose up file is written with CREATE TABLE IF NOT EXISTS, as the
\* generator writes it: "2"; the other up files use a plain CREATE TABLE
IfNotExists == { <<50>> }

\* whether the CREATE TABLE of an up file succeeds against the schema
CreateSucceeds(sch, base) == base \notin sch \/ base \in IfNotExists

\* (mutant) a ledger table without its primary key
PrimaryKeyTakenNever(rows, base) == FALSE

\* flow_migrations.name is the PRIMARY KEY: an INSERT of a name held by a row fails
PrimaryKeyTaken(rows, base) == \E k \in 1..Len(rows) : rows[k].name = base

\* (mutant) a transaction whose failed statement keeps its effect
UpEffectNoRollback(sch, base, ok) == sch \cup {base}

\* the schema after execFile on an up file (CREATE TABLE): committed if the
\* statement succeeded, rolled back otherwise
UpEffect(sch, base, ok) == IF ok THEN sch \cup {base} ELSE sch

\* (mutant) a DROP TABLE that drops nothing
DownEffectNothing(sch, base, ok) == sch

\* the schema after execFile on a down file (DROP TABLE IF EXISTS)
DownEffect(sch, base, ok) == IF ok THEN sch \ {base} ELSE sch

NoCall ==
    [op |-> "none", pc |-> "done", files |-> <<>>, idx |-> 0, base |-> <<>>,
     ret |-> "", events |-> <<>>, startLedger |-> <<>>, startSchema |-> {},
     path |-> <<>>, out |-> <<>>]

Ev(kind, name) == [kind |-> kind, name |-> name]

MigInit ==
    /\ dirExists \in BOOLEAN
    /\ \E U \in SUBSET MigNames : \E D \in SUBSET U :
          /\ dirExists \/ U = {}
          /\ dirFiles = {b \o UpSuffix : b \in U} \cup {b \o DownSuffix : b \in D}
    /\ tableExists = FALSE
    /\ ledger = <<>>
    /\ schema = {}
    /\ now = 0
    /\ run = [p \in Procs |-> NoCall]
    /\ prev = NoCall
    /\ ncalls = 0
    /\ faults = 0

\* a storage error may strike a statement while the fault budget lasts
MayFail(fault) == fault => faults < MaxFaults
Count(fault) == faults' = IF fault THEN faults + 1 ELSE faults

Return(p, err, ev) ==
    run' = [run EXCEPT ![p].pc = "done", ![p].ret = err,
                       ![p].events = run[p].events \o ev]

\* entry of ApplyAll, RollbackLast or PendingMigrations
Call(p, op) ==
    /\ run[p].pc = "done"
    /\ ncalls < MaxCalls
    /\ ncalls' = ncalls + 1
    /\ prev' = run[p]
    /\ run' = [run EXCEPT ![p] = [NoCall EXCEPT !.op = op, !.pc = "ensureTable",
                                                !.startLedger = ledger,
                                                !.startSchema = schema]]
    /\ UNCHANGED <<dirExists, dirFiles, tableExists, ledger, schema, now, faults>>
    /\ UNCHANGED <<routerVars, appVars, watchVars>>

\* ensureTable, and in ApplyAll and PendingMigrations the collect and
\* sort.Strings that follow it; in ApplySingle it comes after the execFile
EnsureTable(p, fault) ==
    /\ run[p].pc = "ensureTable"
    /\ MayFail(fault) /\ Count(fault)
    /\ IF fault
       THEN /\ Return(p, "ensure table", <<Ev("fault", <<>>)>>)
            /\ UNCHANGED tableExists
       ELSE /\ tableExists' = TRUE
            /\ IF run[p].op = "RollbackLast"
               THEN run' = [run EXCEPT ![p].pc = "queryLast"]
               ELSE IF run[p].op = "ApplySingle"
               THEN run' = [run EXCEPT ![p].pc = "markApplied"]
               ELSE IF ~dirExists
               THEN Return(p, "migrations directory not found", <<>>)
               ELSE run' = [run EXCEPT ![p].pc = IF run[p].op = "ApplyAll"
                                                  THEN "isApplied" ELSE "pending",
                                       ![p].idx = 1,
                                       ![p].files = SortStrings(collect(dirFiles, UpSuffix))]
    /\ UNCHANGED <<dirExists, dirFiles, ledger, schema, now, prev, ncalls>>
    /\ UNCHANGED <<routerVars, appVars, watchVars>>

\* ApplyAll: the head of the loop over ups, up to the isApplied query
IsApplied(p, fault) ==
    /\ run[p].pc = "isApplied"
    /\ IF run[p].idx > Len(run[p].files)
       THEN /\ ~fault
            /\ Return(p, "nil", <<>>)
       ELSE LET base == TrimSuffix(run[p].files[run[p].idx], UpSuffix)
            IN  /\ MayFail(fault)
                /\ IF fault
                   THEN run' = [run EXCEPT ![p].pc = "done", ![p].ret = "is applied",
                                           ![p].base = base,
                                           ![p].events = @ \o <<Ev("fault", base)>>]
                   ELSE IF isApplied(ledger, base)
                   THEN run' = [run EXCEPT ![p].idx = @ + 1, ![p].base = base,
                                           ![p].events = @ \o <<Ev("skip", base)>>]
                   ELSE run' = [run EXCEPT ![p].pc = "execUp", ![p].base = base]
    /\ Count(fault)
    /\ UNCHANGED <<dirExists, dirFiles, tableExists, ledger, schema, now, prev, ncalls>>
    /\ UNCHANGED <<routerVars, appVars, watchVars>>

\* ApplyAll, ApplySingle: execFile of an up file in its own transaction. A
\* plain CREATE TABLE fails when the table exists; any statement may fail with
\* a storage error.
ExecUp(p, fault) ==
    /\ run[p].pc = "execUp"
    /\ MayFail(fault) /\ Count(fault)
    /\ LET base == run[p].base
           ok == ~fault /\ CreateSucceeds(schema, base)
       IN  /\ schema' = UpEffect(schema, base, ok)
           /\ IF ok
              THEN run' = [run EXCEPT ![p].pc = IF run[p].op = "ApplySingle"
                                                 THEN "ensureTable" ELSE "markApplied",
                                      ![p].events = @ \o <<Ev("up", base)>>]
              ELSE Return(p, "apply", <<Ev("upfail", base)>>)
    /\ UNCHANGED <<dirExists, dirFiles, tableExists, ledger, now, prev, ncalls>>
    /\ UNCHANGED <<routerVars, appVars, watchVars>>

\* ApplyAll, ApplySingle: markApplied(db, base). The INSERT fails on the primary key when
\* the name is in the table; applied_at is the time of the insert.
MarkApplied(p, fault, t) ==
    /\ run[p].pc = "markApplied"
    /\ MayFail(fault) /\ Count(fault)
    /\ LET base == run[p].base
           ok == ~fault /\ ~PrimaryKeyTaken(ledger, base)
       IN  IF ok
           THEN /\ t \in now..MaxClock
                /\ now' = t
                /\ ledger' = InsertRow(ledger, base, t)
                /\ IF run[p].op = "ApplySingle"
                   THEN Return(p, "nil", <<Ev("mark", base)>>)
                   ELSE run' = [run EXCEPT ![p].pc = "isApplied", ![p].idx = @ + 1,
                                           ![p].events = @ \o <<Ev("mark", base)>>]
           ELSE /\ t = now
                /\ Return(p, "mark applied", <<Ev("markfail", base)>>)
                /\ UNCHANGED <<ledger, now>>
    /\ UNCHANGED <<dirExists, dirFiles, tableExists, schema, prev, ncalls>>
    /\ UNCHANGED <<routerVars, appVars, watchVars>>

\* RollbackLast: the query for the last applied name and the os.Stat of its
\* down file
QueryLast(p, fault, base) ==
    /\ run[p].pc = "queryLast"
    /\ MayFail(fault) /\ Count(fault)
    /\ IF fault
       THEN /\ base = <<>>
            /\ Return(p, "query", <<Ev("fault", <<>>)>>)
       ELSE /\ base \in ScanLast(ledger)
            /\ IF base = NoRows
               THEN Return(p, "no applied migrations found", <<>>)
               ELSE IF (base \o DownSuffix) \notin dirFiles
               THEN run' = [run EXCEPT ![p].pc = "done", ![p].base = base,
                                       ![p].ret = "down migration not found"]
               ELSE run' = [run EXCEPT ![p].pc = "execDown", ![p].base = base]
    /\ UNCHANGED <<dirExists, dirFiles, tableExists, ledger, schema, now, prev, ncalls>>
    /\ UNCHANGED <<routerVars, appVars, watchVars>>

\* RollbackLast, ApplySingle: execFile of a down file in its own transaction
ExecDown(p, fault) ==
    /\ run[p].pc = "execDown"
    /\ MayFail(fault) /\ Count(fault)
    /\ LET base == run[p].base
           ok == ~fault
       IN  /\ schema' = DownEffect(schema, base, ok)
           /\ IF ok
              THEN IF run[p].op = "ApplySingle"
                   THEN Return(p, "nil", <<Ev("down", base)>>)
                   ELSE run' = [run EXCEPT ![p].pc = "unmarkApplied",
                                           ![p].events = @ \o <<Ev("down", base)>>]
              ELSE Return(p, "rollback", <<Ev("downfail", base)>>)
    /\ UNCHANGED <<dirExists, dirFiles, tableExists, ledger, now, prev, ncalls>>
    /\ UNCHANGED <<routerVars, appVars, watchVars>>

\* RollbackLast: unmarkApplied(db, base)
UnmarkApplied(p, fault) ==
    /\ run[p].pc = "unmarkApplied"
    /\ MayFail(fault) /\ Count(fault)
    /\ IF fault
       THEN /\ Return(p, "unmark applied", <<Ev("unmarkfail", run[p].base)>>)
            /\ UNCHANGED ledger
       ELSE /\ ledger' = DeleteRow(ledger, run[p].base)
            /\ Return(p, "nil", <<Ev("unmark", run[p].base)>>)
    /\ UNCHANGED <<dirExists, dirFiles, tableExists, schema, now, prev, ncalls>>
    /\ UNCHANGED <<routerVars, appVars, watchVars>>

\* PendingMigrations: one turn of the loop over ups, an isApplied query
Pending(p, fault) ==
    /\ run[p].pc = "pending"
    /\ IF run[p].idx > Len(run[p].files)
       THEN /\ ~fault
            /\ Return(p, "nil", <<>>)
       ELSE LET base == TrimSuffix(run[p].files[run[p].idx], UpSuffix)
            IN  /\ MayFail(fault)
                /\ IF fault
                   THEN run' = [run EXCEPT ![p].pc = "done", ![p].ret = "is applied",
                                           ![p].out = <<>>,
                                           ![p].events = @ \o <<Ev("fault", base)>>]
                   ELSE IF isApplied(ledger, base)
                   THEN run' = [run EXCEPT ![p].idx = @ + 1]
                   ELSE run' = [run EXCEPT ![p].idx = @ + 1, ![p].out = Append(@, base)]
    /\ Count(fault)
    /\ UNCHANGED <<dirExists, dirFiles, tableExists, ledger, schema, now, prev, ncalls>>
    /\ UNCHANGED <<routerVars, appVars, watchVars>>

\* the path of the migrations directory itself: "."
DirPath == <<46>>

\* the paths ApplySingle is called with: the directory, and the up and down
\* files of each name, present in the directory or not
SinglePaths ==
    {DirPath} \cup {b \o UpSuffix : b \in MigNames} \cup {b \o DownSuffix : b \in MigNames}

\* the table the SQL of a migration file creates or drops
TableOf(path) == TrimSuffix(TrimSuffix(path, UpSuffix), DownSuffix)

\* entry of ApplySingle: os.Stat(path) and info.IsDir()
CallSingle(p, path) ==
    /\ run[p].pc = "done"
    /\ ncalls < MaxCalls
    /\ ncalls' = ncalls + 1
    /\ prev' = run[p]
    /\ LET c == [NoCall EXCEPT !.op = "ApplySingle", !.path = path,
                               !.startLedger = ledger, !.startSchema = schema]
       IN  run' = [run EXCEPT ![p] =
                IF path = DirPath
                THEN [c EXCEPT !.ret = IF dirExists THEN "path is a directory" ELSE "stat"]
                ELSE IF path \notin dirFiles
                THEN [c EXCEPT !.ret = "stat"]
                ELSE [c EXCEPT !.base = TableOf(path),
                               !.pc = IF HasSuffix(path, UpSuffix)
                                      THEN "execUp" ELSE "execDown"]]
    /\ UNCHANGED <<dirExists, dirFiles, tableExists, ledger, schema, now, faults>>
    /\ UNCHANGED <<routerVars, appVars, watchVars>>

\* one runner process at a time, as the runner expects
Runner == 1

\* the statements of a call under way
MigSteps ==
    \/ \E f \in BOOLEAN : EnsureTable(Runner, f)
    \/ \E f \in BOOLEAN : IsApplied(Runner, f)
    \/ \E f \in BOOLEAN : ExecUp(Runner, f)
    \/ \E f \in BOOLEAN, t \in 0..MaxClock : MarkApplied(Runner, f, t)
    \/ \E f \in BOOLEAN, b \in MigNames \cup {<<>>} : QueryLast(Runner, f, b)
    \/ \E f \in BOOLEAN : ExecDown(Runner, f)
    \/ \E f \in BOOLEAN : UnmarkApplied(Runner, f)

MigNext ==
    \/ \E op \in {"ApplyAll", "RollbackLast"} : Call(Runner, op)
    \/ MigSteps

\* the statements of an ApplyAll under way in process p
ApplyAllSteps(p) ==
    \/ \E f \in BOOLEAN : EnsureTable(p, f)
    \/ \E f \in BOOLEAN : IsApplied(p, f)
    \/ \E f \in BOOLEAN : ExecUp(p, f)
    \/ \E f \in BOOLEAN, t \in 0..MaxClock : MarkApplied(p, f, t)

\* two processes, each invoking ApplyAll once against the same directory and
\* the same database, their statements interleaved
MigConcNext ==
    \E p \in Procs :
        \/ run[p].op = "none" /\ Call(p, "ApplyAll")
        \/ ApplyAllSteps(p)

\* ApplyAll, RollbackLast and PendingMigrations in any order
MigCycleNext ==
    \/ \E op \in {"ApplyAll", "RollbackLast", "PendingMigrations"} : Call(Runner, op)
    \/ MigSteps
    \/ \E f \in BOOLEAN : Pending(Runner, f)

\* every operation of the runner, in runs of at most MaxOpCalls calls
MigOpsNext ==
    \/ /\ ncalls < MaxOpCalls
       /\ \E op \in {"ApplyAll", "RollbackLast", "PendingMigrations"} : Call(Runner, op)
    \/ /\ ncalls < MaxOpCalls
       /\ \E path \in SinglePaths : CallSingle(Runner, path)
    \/ MigSteps
    \/ \E f \in BOOLEAN : Pending(Runner, f)

-----------------------------------------------------------------------------
(* Specifications *)

\* the migration runner at rest, while the router is looked at
MigQuiet ==
    /\ dirExists = FALSE /\ dirFiles = {} /\ tableExists = FALSE
    /\ ledger = <<>> /\ schema = {} /\ now = 0
    /\ run = [p \in Procs |-> NoCall] /\ prev = NoCall
    /\ ncalls = 0 /\ faults = 0

\* the router at rest, while the migration runner is looked at
RouterQuiet ==
    /\ routes = <<>> /\ NotFound = "nil" /\ MethodNotAllowed = "nil"
    /\ req = NoReq /\ resp = NoResp /\ reg = NoReg /\ urlRes = NoURL

\* the App at rest, while another component is looked at
AppQuiet ==
    /\ appState = 0 /\ appServer = 0 /\ appMiddleware = <<>>
    /\ appCalls = [p \in Callers |-> "idle"] /\ nservers = 0
    /\ appTrace = <<>> /\ appLog = <<>> /\ appListening = {}

\* no WatchAndRun under way
WatchQuiet ==
    /\ child = 0 /\ alive = {} /\ waiters = {} /\ started = 0
    /\ loop = "off" /\ killed = {}

InitRouter == RouterInit /\ MigQuiet /\ AppQuiet /\ WatchQuiet

SpecRouter == InitRouter /\ [][RouterNext]_vars

SpecReg == InitRouter /\ [][RegNext]_vars

SpecSeg == InitRouter /\ [][SegNext]_vars

\* reverse lookup does not look at the fallback handlers
InitURL == InitRouter /\ NotFound = "nil" /\ MethodNotAllowed = "nil"

SpecURL == InitURL /\ [][URLNext]_vars

SpecRes == InitURL /\ [][ResNext]_vars

SpecMw == InitURL /\ [][MwNext]_vars

SpecApp == InitURL /\ [][AppNext]_vars

SpecWatch == InitURL /\ [][WatchNext]_vars

InitMig == MigInit /\ RouterQuiet /\ AppQuiet /\ WatchQuiet

SpecMig == InitMig /\ [][MigNext]_vars

SpecMigOps == InitMig /\ [][MigOpsNext]_vars

SpecMigConc == InitMig /\ [][MigConcNext]_vars

SpecMigCycle == InitMig /\ [][MigCycleNext]_vars

-----------------------------------------------------------------------------
(* Properties of dispatch *)

Dispatched == req # NoReq

\* the routes that have the shape of the (normalized) request path
ShapeMatches ==
    LET path == normalizePath(req.path)
    IN  {i \in 1..Len(routes) : matchRoute(routes[i].segments, path).ok}

\* among the routes S, those that have the verb of the request
WithVerb(S) == {i \in S : routes[i].method = req.method}

Least(S) == CHOOSE i \in S : \A j \in S : i <= j

\* C1: ServeHTTP invokes the handler of the first route, in registration
\* order, that matches the normalized path in shape and the request in verb,
\* and no other handler; an earlier route of the same shape with another verb
\* does not stop the scan.
C1_FirstFullMatchWins ==
    Dispatched =>
        LET full == WithVerb(ShapeMatches)
        IN  full # {} =>
                /\ resp.kind = "route"
                /\ resp.called = <<routes[Least(full)].handler>>

\* a dispatch to a route that stands behind a route of the same shape with
\* another verb
C1_Witness ==
    /\ Dispatched
    /\ resp.kind = "route"
    /\ \E j \in ShapeMatches :
          j < Least(WithVerb(ShapeMatches)) /\ routes[j].method # req.method

\* C2: when no route matches in shape and verb, no route handler runs; the
\* answer comes from MethodNotAllowed (405 by default) if some route matches
\* in shape, and from NotFound (404 by default) otherwise, wherever in the
\* table the shape match stands.
C2_FallbackAfterFullScan ==
    Dispatched =>
        LET shape == ShapeMatches
        IN  WithVerb(shape) = {} =>
                /\ resp.called = <<>>
                /\ shape # {} =>
                      /\ resp.kind = "MethodNotAllowed"
                      /\ resp.status = IF MethodNotAllowed = "nil" THEN 405 ELSE 0
                /\ shape = {} =>
                      /\ resp.kind = "NotFound"
                      /\ resp.status = IF NotFound = "nil" THEN 404 ELSE 0

\* a default 405 whose shape match is followed by a route of another shape,
\* which the scan had to pass before deciding
C2_Witness ==
    /\ Dispatched
    /\ resp.kind = "MethodNotAllowed" /\ resp.status = 405
    /\ Len(routes) = 2 /\ ShapeMatches = {1}

\* the segments of a request path: the pieces between separators, leading and
\* trailing separators aside
PathSegments(path) ==
    LET t == Trim(path, "/") IN IF t = <<>> THEN <<>> ELSE Split(t, "/")

IsParamSeg(s) == Len(s) > 0 /\ s[1] = ":"
ParamName(s) == SubSeq(s, 2, Len(s))
ParamPositions(segs) == {i \in 1..Len(segs) : IsParamSeg(segs[i])}
ParamNames(segs) == {ParamName(segs[i]) : i \in ParamPositions(segs)}
\* where a name stands in a pattern (its last position, should it stand twice)
PositionOf(segs, n) ==
    CHOOSE i \in ParamPositions(segs) :
        /\ ParamName(segs[i]) = n
        /\ \A j \in ParamPositions(segs) : ParamName(segs[j]) = n => j <= i

\* C3: the handler of a dispatched route sees a parameter map whose keys are
\* exactly the parameter names of the pattern, each bound to the path segment
\* at the name's position; literal segments equal the path segment and the
\* segment counts are equal.
C3_ParamsBound ==
    (Dispatched /\ resp.kind = "route") =>
        LET segs == routes[resp.called[1]].segments
            parts == PathSegments(req.path)
        IN  /\ Len(parts) = Len(segs)
            /\ DOMAIN resp.params = ParamNames(segs)
            /\ \A n \in ParamNames(segs) : resp.params[n] = parts[PositionOf(segs, n)]
            /\ \A i \in 1..Len(segs) : ~IsParamSeg(segs[i]) => segs[i] = parts[i]

\* a dispatch to /:x/:y that binds two different segments
C3_Witness ==
    /\ Dispatched
    /\ resp.kind = "route"
    /\ routes[resp.called[1]].pattern = <<"/", ":", "x", "/", ":", "y">>
    /\ resp.params[<<"x">>] = <<"a">>
    /\ resp.params[<<"y">>] = <<"b">>

\* C4: for every request path p other than the root, p with one more trailing
\* "/" is dispatched as p is: the same route and parameters, or the same
\* 404/405.
C4_TrailingSlashEquivalent ==
    (Dispatched /\ req.path # <<"/">>) =>
        Dispatch(routes, MethodNotAllowed, NotFound, req.method,
                 Append(req.path, "/")) = resp

-----------------------------------------------------------------------------
(* Properties of the migration runner *)

\* the call in progress, or the last one, of the runner
Cur == run[Runner]

RowNames(rows) == {rows[k].name : k \in 1..Len(rows)}
UpBases == {TrimSuffix(f, UpSuffix) : f \in collect(dirFiles, UpSuffix)}
UpFile(b) == b \o UpSuffix
EventNames(evs, kinds) == {evs[k].name : k \in {j \in 1..Len(evs) : evs[j].kind \in kinds}}
\* the up files a call ran, with or without success, in the order it ran them
Executed(c) == SelectSeq(c.events, LAMBDA e : e.kind \in {"up", "upfail"})
\* the call met no error of storage or of SQL
NoError(c) ==
    \A k \in 1..Len(c.events) :
        c.events[k].kind \notin {"fault", "upfail", "markfail", "downfail", "unmarkfail"}

\* C5: an ApplyAll that directly follows a successful ApplyAll executes no
\* migration SQL, adds no ledger entry and returns no error, and the ledger
\* holds exactly one entry for each migration of the directory.
C5_SecondApplyAllIsNoOp ==
    (prev.op = "ApplyAll" /\ prev.ret = "nil" /\ Cur.op = "ApplyAll") =>
        /\ \A k \in 1..Len(Cur.events) : Cur.events[k].kind \in {"skip", "fault"}
        /\ ledger = Cur.startLedger
        /\ schema = Cur.startSchema
        /\ (Cur.pc = "done" /\ NoError(Cur)) => Cur.ret = "nil"
        /\ \A b \in UpBases : Cardinality({k \in 1..Len(ledger) : ledger[k].name = b}) = 1

\* a second ApplyAll that returned nil after a first one that applied two
\* migrations
C5_Witness ==
    /\ prev.op = "ApplyAll" /\ prev.ret = "nil"
    /\ Cardinality(EventNames(prev.events, {"mark"})) >= 2
    /\ Cur.op = "ApplyAll" /\ Cur.pc = "done" /\ Cur.ret = "nil"

\* the directory holds the up file and the down file of m and nothing else
OnePair(m) == dirFiles = {m \o UpSuffix, m \o DownSuffix}

\* C6: with one migration pair in the directory, a successful ApplyAll from
\* the unapplied state followed by a successful RollbackLast leaves schema and
\* ledger as they were before the ApplyAll: no table, no ledger entry.
C6_ApplyThenRollbackRestores ==
    \A m \in MigNames :
        ( /\ OnePair(m)
          /\ prev.op = "ApplyAll" /\ prev.ret = "nil"
          /\ m \notin RowNames(prev.startLedger) /\ m \notin prev.startSchema
          /\ Cur.op = "RollbackLast" /\ Cur.pc = "done" /\ Cur.ret = "nil" ) =>
            /\ schema = prev.startSchema /\ ledger = prev.startLedger
            /\ m \notin schema /\ ledger = <<>>

\* a successful RollbackLast right after the ApplyAll that applied the pair
C6_Witness ==
    \E m \in MigNames :
        /\ OnePair(m)
        /\ prev.op = "ApplyAll" /\ prev.ret = "nil"
        /\ prev.events = <<Ev("up", m), Ev("mark", m)>>
        /\ Cur.op = "RollbackLast" /\ Cur.pc = "done" /\ Cur.ret = "nil"

\* C7: within one ApplyAll the migrations without a ledger entry are executed
\* in ascending lexicographic order of their file names, each one marked
\* before the next is started; a migration with a ledger entry is skipped
\* without executing its SQL.
C7_AscendingOneByOne ==
    Cur.op = "ApplyAll" =>
        LET ex == Executed(Cur)
            evs == Cur.events
        IN  /\ \A i, j \in 1..Len(ex) :
                  i < j => LexLess(UpFile(ex[i].name), UpFile(ex[j].name))
            /\ \A k \in 1..Len(evs) :
                  evs[k].kind = "up" =>
                      IF k = Len(evs) THEN Cur.pc = "markApplied"
                      ELSE /\ evs[k + 1].kind \in {"mark", "markfail"}
                           /\ evs[k + 1].name = evs[k].name
            /\ \A k \in 1..Len(evs) :
                  evs[k].kind = "mark" => k > 1 /\ evs[k - 1] = Ev("up", evs[k].name)
            /\ EventNames(evs, {"up", "upfail"}) \cap RowNames(Cur.startLedger) = {}
            /\ EventNames(evs, {"skip"}) \subseteq RowNames(Cur.startLedger)
            /\ (Cur.pc = "done" /\ Cur.ret = "nil") =>
                  /\ EventNames(evs, {"up"}) = UpBases \ RowNames(Cur.startLedger)
                  /\ EventNames(evs, {"skip"}) = UpBases \cap RowNames(Cur.startLedger)

\* an ApplyAll that skipped one migration and executed two
C7_Witness ==
    /\ Cur.op = "ApplyAll" /\ Cur.pc = "done" /\ Cur.ret = "nil"
    /\ Cardinality(EventNames(Cur.events, {"skip"})) = 1
    /\ Cardinality(EventNames(Cur.events, {"up"})) = 2

\* C8: when the SQL of a migration fails during ApplyAll, ApplyAll returns an
\* error at once; the migrations applied earlier in the call stay applied,
\* the failing file leaves nothing in the schema and has no ledger entry, and
\* no later file is executed or marked.
C8_FailureStopsAndKeepsEarlier ==
    \A k \in 1..Len(Cur.events) :
        (Cur.op = "ApplyAll" /\ Cur.events[k].kind = "upfail") =>
            LET failed == Cur.events[k].name
                applied == EventNames(Cur.events, {"up"})
            IN  /\ k = Len(Cur.events)
                /\ Cur.pc = "done" /\ Cur.ret # "nil"
                /\ applied \subseteq schema
                /\ applied \subseteq RowNames(ledger)
                /\ schema = Cur.startSchema \cup applied
                /\ RowNames(ledger) = RowNames(Cur.startLedger) \cup applied
                /\ failed \notin RowNames(ledger)
                /\ \A b \in EventNames(Cur.events, {"up", "mark"}) :
                      LexLess(UpFile(b), UpFile(failed))

\* an ApplyAll that applied one migration and failed on the next, which left
\* no table
C8_Witness ==
    /\ Cur.op = "ApplyAll" /\ Cur.pc = "done"
    /\ Len(Cur.events) = 3
    /\ Cur.events[1].kind = "up" /\ Cur.events[2].kind = "mark"
    /\ Cur.events[3].kind = "upfail"
    /\ Cur.events[3].name \notin schema
    /\ \E b \in UpBases : LexLess(UpFile(Cur.events[3].name), UpFile(b))

\* the previous call was an ApplyAll that failed while at migration k, which
\* it left without a ledger entry
FailedAt(k) ==
    /\ prev.op = "ApplyAll"
    /\ prev.ret \in {"is applied", "apply", "mark applied"}
    /\ prev.base = k
    /\ k \notin RowNames(Cur.startLedger)

\* C9: the ApplyAll that follows an ApplyAll failed at migration k executes no
\* migration before k again, starts with k, and, when it meets no error, ends
\* with every migration of the directory in the ledger.
C9_RetryResumesAtFailure ==
    \A k \in MigNames :
        (FailedAt(k) /\ Cur.op = "ApplyAll") =>
            LET ex == Executed(Cur)
            IN  /\ \A i \in 1..Len(ex) : ~LexLess(UpFile(ex[i].name), UpFile(k))
                /\ ex # <<>> => ex[1].name = k
                /\ (Cur.pc = "done" /\ NoError(Cur)) =>
                      /\ Cur.ret = "nil"
                      /\ ex # <<>>
                      /\ UpBases \subseteq RowNames(ledger)

\* a retry that succeeded after an ApplyAll that had applied one migration
\* before it failed
C9_Witness ==
    /\ \E k \in MigNames : FailedAt(k)
    /\ EventNames(prev.events, {"mark"}) # {}
    /\ Cur.op = "ApplyAll" /\ Cur.pc = "done" /\ Cur.ret = "nil"
    /\ UpBases \subseteq RowNames(ledger)

\* C10: a successful RollbackLast undoes exactly the migration whose apply
\* completed most recently among those in the ledger (the last row inserted),
\* also when applied_at of several rows coincide: it runs that migration's
\* down-SQL and deletes only that row.
C10_RollbackUndoesLatest ==
    (Cur.op = "RollbackLast" /\ Cur.pc = "done" /\ Cur.ret = "nil") =>
        LET rows == Cur.startLedger
            latest == rows[Len(rows)].name
        IN  /\ Cur.events = <<Ev("down", latest), Ev("unmark", latest)>>
            /\ ledger = SubSeq(rows, 1, Len(rows) - 1)
            /\ schema = Cur.startSchema \ {latest}

\* the SQL a call ran: the down files it executed, with or without success
RanDown(c) == EventNames(c.events, {"down", "downfail"})

\* C11: RollbackLast on an empty ledger returns an error, executes no
\* migration SQL, and leaves the schema and the ledger entries unchanged.
C11_RollbackOnEmptyLedger ==
    (Cur.op = "RollbackLast" /\ Cur.startLedger = <<>>) =>
        /\ Executed(Cur) = <<>> /\ RanDown(Cur) = {}
        /\ ledger = Cur.startLedger
        /\ schema = Cur.startSchema
        /\ Cur.pc = "done" => Cur.ret # "nil"

\* a rollback that found no applied migration, with a table left in the schema
\* by an earlier ApplyAll whose ledger insert failed
C11_Witness ==
    /\ Cur.op = "RollbackLast" /\ Cur.pc = "done"
    /\ Cur.startLedger = <<>>
    /\ Cur.ret = "no applied migrations found"
    /\ schema # {}

\* the migration applied last: its row was the last one inserted
MostRecent(rows) == rows[Len(rows)].name

\* C12: when the most recently applied migration has no down file, RollbackLast
\* returns an error, executes no SQL and removes no ledger entry: that
\* migration stays applied and no earlier one is rolled back in its place.
C12_MissingDownBlocksRollback ==
    (/\ Cur.op = "RollbackLast"
     /\ Cur.startLedger # <<>>
     /\ (MostRecent(Cur.startLedger) \o DownSuffix) \notin dirFiles) =>
        /\ RanDown(Cur) = {}
        /\ ledger = Cur.startLedger
        /\ schema = Cur.startSchema
        /\ Cur.pc = "done" => Cur.ret # "nil"

\* the names that have an up file in the directory
WithUpFile == {b \in MigNames : UpFile(b) \in dirFiles}

\* C13: PendingMigrations returns exactly the base names of the up files that
\* have no ledger entry, in ascending file order, and changes neither ledger
\* entries nor schema: every discovered migration while the ledger is empty,
\* none right after a successful ApplyAll.
C13_PendingIsUnappliedInOrder ==
    Cur.op = "PendingMigrations" =>
        /\ ledger = Cur.startLedger
        /\ schema = Cur.startSchema
        /\ (Cur.pc = "done" /\ Cur.ret = "nil") =>
              /\ {Cur.out[k] : k \in 1..Len(Cur.out)} = WithUpFile \ RowNames(ledger)
              /\ \A i, j \in 1..Len(Cur.out) :
                    i < j => LexLess(UpFile(Cur.out[i]), UpFile(Cur.out[j]))
              /\ ledger = <<>> => Len(Cur.out) = Cardinality(WithUpFile)
              /\ (prev.op = "ApplyAll" /\ prev.ret = "nil") => Cur.out = <<>>

\* after an ApplyAll that stopped part-way, the two migrations left are listed
C13_Witness ==
    /\ Cur.op = "PendingMigrations" /\ Cur.pc = "done" /\ Cur.ret = "nil"
    /\ ledger # <<>>
    /\ Len(Cur.out) = 2

\* every migration is applied (table and ledger entry) or unapplied (neither)
Settled(sch, rows) == sch = RowNames(rows)

\* the last event of a call, if it is of the given kind
EndsWith(c, kind) == c.events # <<>> /\ c.events[Len(c.events)].kind = kind
LastName(c) == c.events[Len(c.events)].name

\* C14 (as claimed): whenever ApplyAll or RollbackLast returns, with success or
\* with any error, every migration is either applied or unapplied.
C14_NoPartialAtReturn ==
    (/\ Cur.op \in {"ApplyAll", "RollbackLast"} /\ Cur.pc = "done"
     /\ Settled(Cur.startSchema, Cur.startLedger)) =>
        Settled(schema, ledger)

\* C14 (amended): when ApplyAll or RollbackLast, called with every migration
\* applied or unapplied, returns, every migration is again applied or
\* unapplied, except after a storage error on the ledger insert or delete that
\* follows the committed SQL: then that one migration is left with its table
\* and no ledger entry (insert), or with its ledger entry and no table (delete).
C14_PartialOnlyAfterLedgerError ==
    (/\ Cur.op \in {"ApplyAll", "RollbackLast"} /\ Cur.pc = "done"
     /\ Settled(Cur.startSchema, Cur.startLedger)) =>
        IF EndsWith(Cur, "markfail")
        THEN /\ LastName(Cur) \in schema
             /\ RowNames(ledger) = schema \ {LastName(Cur)}
        ELSE IF EndsWith(Cur, "unmarkfail")
        THEN /\ LastName(Cur) \in RowNames(ledger)
             /\ schema = RowNames(ledger) \ {LastName(Cur)}
        ELSE Settled(schema, ledger)

\* an ApplyAll that applied one migration and then lost the ledger insert of
\* the next one
C14_Witness ==
    /\ Cur.op = "ApplyAll" /\ Cur.pc = "done"
    /\ Settled(Cur.startSchema, Cur.startLedger)
    /\ EndsWith(Cur, "markfail")
    /\ ledger # <<>>

\* C15: in every sequence of ApplyAll, RollbackLast and ApplySingle calls of one
\* process, a migration's up-SQL is executed only while its name is absent
\* from the ledger and is followed by marking it, and its down-SQL is executed
\* only while its name is present and is followed by unmarking it. (Between a
\* file's execution and the next ledger statement the last event of the call
\* is that execution, and the ledger is as it was when the file ran.)
C15_TwoStatesTwoTransitions ==
    Cur.op \in {"ApplyAll", "RollbackLast", "ApplySingle"} =>
        /\ (EndsWith(Cur, "up") \/ EndsWith(Cur, "upfail")) =>
              LastName(Cur) \notin RowNames(ledger)
        /\ (EndsWith(Cur, "down") \/ EndsWith(Cur, "downfail")) =>
              LastName(Cur) \in RowNames(ledger)
        /\ \A k \in 1..Len(Cur.events) :
              /\ Cur.events[k].kind = "up" =>
                    IF k = Len(Cur.events) THEN Cur.pc # "done"
                    ELSE Cur.events[k + 1].kind \in {"mark", "markfail", "fault"}
              /\ Cur.events[k].kind = "down" =>
                    IF k = Len(Cur.events) THEN Cur.pc # "done"
                    ELSE Cur.events[k + 1].kind \in {"unmark", "unmarkfail"}

\* the call of process p has an event of the given kind for migration m
Has(p, kind, m) == \E k \in 1..Len(run[p].events) : run[p].events[k] = Ev(kind, m)

\* C16: with two ApplyAll invocations interleaved, the ledger never holds two
\* entries for one name; when both invocations have executed the up-SQL of the
\* same migration, at most one of them marks it, and once both have returned
\* (no storage error having struck) exactly one has marked it and the other
\* has returned the error of its ledger insert.
C16_OneMarkPerName ==
    /\ \A i, j \in 1..Len(ledger) : i # j => ledger[i].name # ledger[j].name
    /\ \A m \in MigNames :
          (\A p \in Procs : Has(p, "up", m)) =>
              /\ \E p \in Procs : ~Has(p, "mark", m)
              /\ ((\A p \in Procs : run[p].pc = "done") /\ faults = 0) =>
                    \E p, q \in Procs :
                        /\ p # q
                        /\ Has(p, "mark", m)
                        /\ Has(q, "markfail", m)
                        /\ run[q].ret = "mark applied" /\ run[q].base = m

\* both invocations ran the same up-SQL, one marked it, the other returned the
\* error of its insert, and no storage error was involved
C16_Witness ==
    /\ \A p \in Procs : run[p].op = "ApplyAll" /\ run[p].pc = "done"
    /\ faults = 0
    /\ \E m \in MigNames :
          /\ \A p \in Procs : Has(p, "up", m)
          /\ \E q \in Procs : run[q].ret = "mark applied" /\ run[q].base = m

-----------------------------------------------------------------------------
(* Properties of registration *)

Named(fn) == fn \in {"HandleNamed", "HandleNamedWith"}
Panicked == reg.panic # ""

\* C17: no two routes of the table share a non-empty name; a HandleNamed or
\* HandleNamedWith call that registers leaves its name on the new route only,
\* and one that panics on a name in use leaves the table as it was.
C17_RouteNamesUnique ==
    /\ \A i, j \in 1..Len(routes) :
          (i # j /\ routes[i].name # "") => routes[i].name # routes[j].name
    /\ (Named(reg.fn) /\ ~Panicked) =>
          /\ routes[Len(routes)].name = reg.name
          /\ ~NameInUse(SubSeq(routes, 1, Len(routes) - 1), reg.name)
    /\ reg.panic = "router: duplicate route name" =>
          /\ Named(reg.fn)
          /\ NameInUse(routes, reg.name)
          /\ routes = reg.before

\* a named registration that panicked because an earlier route has the name
C17_Witness ==
    /\ reg.panic = "router: duplicate route name"
    /\ reg.fn = "HandleNamedWith"
    /\ \E i \in 1..Len(routes) : routes[i].name = reg.name

\* C18: a registration whose pattern does not begin with "/" panics and leaves
\* the route table unchanged; every stored pattern begins with "/".
C18_PatternBeginsWithSlash ==
    /\ \A i \in 1..Len(routes) : HasPrefix(routes[i].pattern, "/")
    /\ (reg.fn # "" /\ ~HasPrefix(reg.pattern, "/")) =>
          /\ Panicked
          /\ routes = reg.before

\* a registration on a non-empty table that panicked on its pattern
C18_Witness ==
    /\ reg.panic = "router: pattern must begin with '/'"
    /\ routes # <<>>

\* a pattern segment that is the bare parameter marker
BareMarker(seg) == seg = <<":">>

\* C19: every parameter segment of every route of the table is ":" followed
\* by a non-empty identifier, and a registration whose pattern has a bare ":"
\* segment panics.
C19_NoBareMarkerInTable ==
    /\ \A i \in 1..Len(routes) : \A k \in 1..Len(routes[i].segments) :
          ~BareMarker(routes[i].segments[k])
    /\ (reg.fn # "" /\ \E k \in 1..Len(splitPath(reg.pattern)) :
                          BareMarker(splitPath(reg.pattern)[k])) => Panicked

\* C20: whenever a route is dispatched, every value bound to one of its
\* parameters is a single non-empty path segment.
C20_BoundValuesNonEmpty ==
    resp.kind = "route" =>
        \A n \in DOMAIN resp.params :
            /\ resp.params[n] # <<>>
            /\ \A k \in 1..Len(resp.params[n]) : resp.params[n][k] # "/"

-----------------------------------------------------------------------------
(* Properties of reverse lookup *)

\* the routes registered under a name: a route registered without a name has
\* the empty string in its name field and is registered under no name
RegisteredUnder(name) == {i \in 1..Len(routes) : name # "" /\ routes[i].name = name}

\* the names of the parameter segments of a route
ParamKeys(rt) ==
    {TrimPrefix(rt.segments[k], ":") :
        k \in {j \in 1..Len(rt.segments) : HasPrefix(rt.segments[j], ":")}}

\* C21: URL returns an error and no path when no route is registered under the
\* name or when the name of a parameter segment of the route is absent from
\* params, and it leaves the route table unchanged.
C21_URLErrors ==
    urlRes.done =>
        /\ routes = urlRes.table
        /\ RegisteredUnder(urlRes.name) = {} =>
              (urlRes.err # "" /\ urlRes.path = <<>>)
        /\ \A i \in RegisteredUnder(urlRes.name) :
              ~(ParamKeys(routes[i]) \subseteq DOMAIN urlRes.params) =>
                  (urlRes.err # "" /\ urlRes.path = <<>>)

\* params without the keys the route does not use
Restrict(params, keys) == [k \in (DOMAIN params) \cap keys |-> params[k]]

\* C22: for a named route whose parameter names are all keys of params, URL
\* returns "/" for the root pattern and otherwise "/" followed by the route's
\* segments joined by "/", each parameter segment replaced by its path-escaped
\* value and each literal segment unchanged; keys the pattern does not use
\* have no effect.
C22_URLSubstitutes ==
    urlRes.done =>
        \A i \in RegisteredUnder(urlRes.name) :
            ParamKeys(routes[i]) \subseteq DOMAIN urlRes.params =>
                LET segs == routes[i].segments
                IN  /\ urlRes.err = ""
                    /\ IF segs = <<>> THEN urlRes.path = <<"/">>
                       ELSE /\ urlRes.path[1] = "/"
                            /\ Split(Tail(urlRes.path), "/") =
                                 [k \in 1..Len(segs) |->
                                    IF HasPrefix(segs[k], ":")
                                    THEN PathEscape(urlRes.params[TrimPrefix(segs[k], ":")])
                                    ELSE segs[k]]
                    /\ urlRes.path =
                         URLFrom(routes, 1, urlRes.name,
                                 Restrict(urlRes.params, ParamKeys(routes[i]))).path

\* a lookup on a route of two parameters, with a value that needs escaping
\* and a key the pattern does not use
C22_Witness ==
    /\ urlRes.done /\ urlRes.err = ""
    /\ \E i \in RegisteredUnder(urlRes.name) :
          /\ Cardinality(ParamKeys(routes[i])) = 2
          /\ ParamKeys(routes[i]) # DOMAIN urlRes.params
          /\ \E k \in ParamKeys(routes[i]) : urlRes.params[k] = <<"/">>

\* a value URL writes as it is and that fills one path segment
PlainValue(v) == v # <<>> /\ PathEscape(v) = v /\ \A k \in 1..Len(v) : v[k] # "/"

\* C27: for a named route and params that give each parameter name of the
\* route a plain value, the path URL returns matches the route's pattern and
\* the match binds exactly those values to exactly those names.
C27_URLThenMatch ==
    urlRes.done =>
        \A i \in RegisteredUnder(urlRes.name) :
            (/\ ParamKeys(routes[i]) \subseteq DOMAIN urlRes.params
             /\ \A k \in ParamKeys(routes[i]) : PlainValue(urlRes.params[k])) =>
                LET m == matchRoute(routes[i].segments, normalizePath(urlRes.path))
                IN  /\ urlRes.err = ""
                    /\ m.ok
                    /\ m.params = Restrict(urlRes.params, ParamKeys(routes[i]))

-----------------------------------------------------------------------------
(* Properties of Resources *)

\* n separators
Slashes(n) == [k \in 1..n |-> "/"]

\* the verb, path and action of the eight routes of a resource of base b
ResourceTable(b) ==
    LET coll == <<"/">> \o b
        member == coll \o <<"/", ":", "i", "d">>
    IN  << <<"GET", coll, "Index">>,
           <<"GET", coll \o <<"/", "n", "e", "w">>, "New">>,
           <<"POST", coll, "Create">>,
           <<"GET", member, "Show">>,
           <<"GET", member \o <<"/", "e", "d", "i", "t">>, "Edit">>,
           <<"PUT", member, "Update">>,
           <<"PATCH", member, "Update">>,
           <<"DELETE", member, "Destroy">> >>

\* C23: Resources with a non-empty base appends exactly the eight routes of
\* the resource table, in its order, after the routes registered before and
\* leaves those unchanged, where b is the base without its leading and
\* trailing separators; with an empty base it returns an error and appends
\* no route.
C23_ResourcesEightRoutes ==
    reg.fn = "Resources" =>
        IF reg.pattern = <<>>
        THEN reg.err # "" /\ routes = reg.before
        ELSE LET n == Len(reg.before)
             IN  /\ reg.err = ""
                 /\ Len(routes) = n + 8
                 /\ SubSeq(routes, 1, n) = reg.before
                 /\ LET b == Tail(routes[n + 1].pattern)
                    IN  /\ b = <<>> \/ (b[1] # "/" /\ b[Len(b)] # "/")
                        /\ \E l, r \in 0..Len(reg.pattern) :
                               reg.pattern = Slashes(l) \o b \o Slashes(r)
                        /\ \A k \in 1..8 :
                               LET rt == routes[n + k]
                               IN  <<rt.method, rt.pattern, rt.handler>> =
                                       ResourceTable(b)[k]

\* the resource "/b/" wired after one other route
C23_Witness ==
    /\ reg.fn = "Resources"
    /\ reg.pattern = <<"/", "b", "/">>
    /\ Len(reg.before) = 1
    /\ Len(routes) = 9

\* C24: after Resources("b", c), URL("b_show", {id: v}) returns the path
\* /b/v without error.
C24_ResourcesNamesShow ==
    (/\ reg.fn = "Resources" /\ reg.pattern = <<"b">>
     /\ urlRes.done /\ urlRes.name = "b_show"
     /\ <<"i", "d">> \in DOMAIN urlRes.params) =>
        /\ urlRes.err = ""
        /\ urlRes.path = <<"/", "b", "/">> \o PathEscape(urlRes.params[<<"i", "d">>])

\* C28: after Resources on an empty router, GET /b/new is dispatched to New,
\* GET /b/v/edit to Edit with id = v, and GET /b/v for every other segment v
\* to Show with id = v, b the trimmed base and v a non-empty segment.
C28_NewBeforeShow ==
    (/\ reg.fn = "Resources" /\ reg.err = "" /\ reg.before = <<>>
     /\ req # NoReq /\ req.method = "GET") =>
        LET pre == <<"/">> \o Trim(reg.pattern, "/") \o <<"/">>
            id == <<"i", "d">>
        IN  /\ req.path = pre \o <<"n", "e", "w">> =>
                  (resp.kind = "route" /\ resp.called = <<"New">>)
            /\ \A v \in ResSegs \ {<<>>} :
                  /\ req.path = pre \o v \o <<"/", "e", "d", "i", "t">> =>
                        /\ resp.kind = "route"
                        /\ resp.called = <<"Edit">>
                        /\ resp.params = (id :> v)
                  /\ (v # <<"n", "e", "w">> /\ req.path = pre \o v) =>
                        /\ resp.kind = "route"
                        /\ resp.called = <<"Show">>
                        /\ resp.params = (id :> v)

\* GET /b/new answered by New on the resource "b"
C28_Witness ==
    /\ reg.fn = "Resources" /\ reg.before = <<>>
    /\ req = [method |-> "GET", path |-> <<"/", "b", "/", "n", "e", "w">>]
    /\ resp.called = <<"New">>

-----------------------------------------------------------------------------
(* Properties of middleware composition *)

\* what a request does on a terminal handler behind the list mws: it enters
\* mws[1], mws[2], ... up to the first one that does not call its next stage,
\* runs the terminal handler if there is no such one, and leaves in the
\* reverse order
Onion(mws, terminal) ==
    LET stops == {i \in 1..Len(mws) : ~CallsNext(mws[i])}
        k == IF stops = {} THEN Len(mws)
             ELSE CHOOSE i \in stops : \A j \in stops : i <= j
    IN  [j \in 1..k |-> <<"enter", mws[j]>>]
        \o (IF stops = {} THEN << <<"run", terminal>> >> ELSE <<>>)
        \o [j \in 1..k |-> <<"exit", mws[k + 1 - j]>>]

\* C25: a request dispatched to a route goes through the route's middleware
\* with the first-registered one outermost and then to the route's handler,
\* and a request served by the App goes the same way through the App's
\* middleware and then to the router; the way back is the reverse, and past
\* a middleware that does not call its next stage nothing runs.
C25_FirstRegisteredOutermost ==
    /\ resp.kind = "route" =>
           resp.trace = Onion(routes[1].middleware, routes[1].handler)
    /\ appTrace # <<>> =>
           /\ appTrace = Onion(appMiddleware, "router")
           /\ (\E k \in 1..Len(appMiddleware) : ~CallsNext(appMiddleware[k])) =>
                  resp = NoResp

\* a route whose second middleware stops, reached through an App stack of two
\* passing middleware
C25_Witness ==
    /\ resp.kind = "route"
    /\ routes[1].middleware = <<"m1", "s">>
    /\ appMiddleware = <<"m2", "m1">>
    /\ Len(appTrace) = 5
    /\ Len(resp.trace) = 4

-----------------------------------------------------------------------------
(* Properties of the App lifecycle *)

\* the Start calls that returned
Starts == {k \in 1..Len(appLog) : appLog[k].op = "Start"}

\* the Start calls that returned nil or are past their compare-and-swap
Succeeded ==
    Cardinality({k \in Starts : appLog[k].err = ""})
    + Cardinality({p \in Callers : appCalls[p] \in {"server", "go"}})

\* C26: a Start that finds the App running returns ErrAppAlreadyRunning, at
\* most one of the Start calls on an App succeeds and at most one server is
\* created, whatever the interleaving, and every change of App.state goes
\* from idle to running or from running to stopped.
C26_StartOnce ==
    /\ \A k \in Starts : appLog[k].seen = 1 => appLog[k].err = "ErrAppAlreadyRunning"
    /\ Succeeded <= 1
    /\ nservers <= Succeeded
    /\ appState \in {0, 1, 2}
    /\ \A k \in 1..Len(appLog) :
          appLog[k].op = "state" => appLog[k].to = appLog[k].seen + 1

\* one Start succeeded, another one found the App running and was refused,
\* and the App has stopped
C26_Witness ==
    /\ \E k \in Starts : appLog[k].err = ""
    /\ \E k \in Starts : appLog[k].seen = 1 /\ appLog[k].err # ""
    /\ appState = 2
    /\ nservers = 1

-----------------------------------------------------------------------------
(* Properties of WatchAndRun *)

\* C30: at most one child is alive, and a child that is alive is the one the
\* child variable refers to, which is the one the next stopChild kills.
C30_OneChildAlive ==
    /\ Cardinality(alive) <= 1
    /\ \A c \in alive : child = c

-----------------------------------------------------------------------------
(* Properties of the apply, roll back, apply cycle *)

\* the call was a RollbackLast that returned nil
RolledBack(c) == c.op = "RollbackLast" /\ c.pc = "done" /\ c.ret = "nil"

\* C29: a PendingMigrations that follows a successful RollbackLast of m
\* returns m among the pending, and an ApplyAll without error that follows a
\* successful RollbackLast of m, itself started with every migration of the
\* directory in the ledger (as an ApplyAll leaves it), runs the up-SQL of m
\* and of no other migration and leaves every migration of the directory in
\* the ledger exactly once.
C29_RolledBackIsPendingAgain ==
    RolledBack(prev) =>
        /\ (Cur.op = "PendingMigrations" /\ Cur.pc = "done" /\ Cur.ret = "nil") =>
               \E k \in 1..Len(Cur.out) : Cur.out[k] = prev.base
        /\ (/\ Cur.op = "ApplyAll" /\ Cur.pc = "done" /\ Cur.ret = "nil"
            /\ NoError(Cur) /\ NoError(prev)
            /\ RowNames(prev.startLedger) = WithUpFile) =>
               /\ Len(Executed(Cur)) = 1
               /\ Executed(Cur)[1].kind = "up"
               /\ Executed(Cur)[1].name = prev.base
               /\ \A m \in WithUpFile :
                      Cardinality({k \in 1..Len(ledger) : ledger[k].name = m}) = 1

\* ApplyAll of two migrations, RollbackLast, ApplyAll again
C29_Witness ==
    /\ RolledBack(prev) /\ NoError(prev)
    /\ Cardinality(WithUpFile) = 2
    /\ RowNames(prev.startLedger) = WithUpFile
    /\ Cur.op = "ApplyAll" /\ Cur.pc = "done" /\ Cur.ret = "nil" /\ NoError(Cur)
    /\ Len(Executed(Cur)) = 1
    /\ Len(ledger) = 2

=============================================================================
